---- MODULE Spec2Model ----
(***************************************************************************)
(* The tool functions of the voice-assistant repository (aitools.py,       *)
(* toolscerebras.py, toolsn8n.py, tools.py, agentn8n.py) as a state        *)
(* machine: one tool invocation at a time, from the call, through the one  *)
(* outbound exchange (HTTP request or SMTP dialogue), to the value handed  *)
(* back to the caller.  The remote side and the file system are the        *)
(* environment: their outcomes are chosen nondeterministically.            *)
(*                                                                         *)
(* Text that the code inspects character by character (EMAIL_PROVIDER,     *)
(* EMAIL_DEMO_MODE, e-mail addresses) is a sequence of ASCII codes, so     *)
(* that str.lower() and the "@" test are computed, not assumed.            *)
(***************************************************************************)
EXTENDS Integers, Sequences, FiniteSets, TLC

VARIABLES
    mod,        \* source module of the running invocation
    tool,       \* tool function being run
    pc,         \* position inside the tool function
    args,       \* the call's arguments
    env,        \* os.getenv view of the process environment for this call
    days,       \* get_weather's local `days` after the clamp
    resp,       \* what the outbound call produced (status/body or exception)
    ret,        \* what the invocation handed back to its caller
    requests,   \* outbound HTTP requests / SMTP connections of this invocation
    request,    \* the HTTP request this invocation sent: URL and parameters
    timeout,    \* timeout armed on the outbound call in flight
    smtp,       \* SMTP steps attempted so far, with their outcomes
    conn,       \* state of the SMTP connection: "none", "open", "closed"
    files,      \* local files written by this invocation (demo_email_*.txt, sent_email_*.txt)
    entry,      \* agent script whose entrypoint the worker is running
    ep,         \* position inside the entrypoint: index of its next step
    steps,      \* steps the entrypoint has performed, with their outcomes
    estatus,    \* "none", "running", "returned", "raised"
    enable_video,   \* whether the running agent processes video
    assistant,  \* the fields of the Agent object that the video code uses
    tasks,      \* asyncio tasks created by the agent's code, still in flight
    closed,     \* VideoStream objects that have been closed
    tracks,     \* video tracks the agent has been handed so far
    access,     \* which task has read or written which field of the Agent object
    clock,      \* time.time(), in seconds since the job started
    message     \* the user message last handed to on_user_turn_completed

\* state of a tool invocation
toolVars == <<mod, tool, pc, args, env, days, resp, ret, requests, request, timeout, smtp, conn, files>>

\* state of an agent job
entryVars == <<entry, ep, steps, estatus>>

\* state of the video processing of an agent job
videoVars == <<enable_video, assistant, tasks, closed, tracks, access>>

\* the clock and the user's turn
turnVars == <<clock, message>>

jobVars == <<entry, ep, steps, estatus, enable_video, assistant, tasks, closed, tracks, access,
             clock, message>>

vars == <<mod, tool, pc, args, env, days, resp, ret, requests, request, timeout, smtp, conn, files,
          entry, ep, steps, estatus, enable_video, assistant, tasks, closed, tracks, access,
          clock, message>>

----------------------------------------------------------------------------
(* Bounds of the model *)

\* longest forecast list the weather provider returns in the model
MaxForecast == 3
\* longest results list the search provider returns in the model
MaxResults == 4

----------------------------------------------------------------------------
(* Text as ASCII codes *)

S_outlook == <<111, 117, 116, 108, 111, 111, 107>>
S_OUTLOOK == <<79, 85, 84, 76, 79, 79, 75>>
S_yandex  == <<121, 97, 110, 100, 101, 120>>
S_Yandex  == <<89, 97, 110, 100, 101, 120>>
S_mail    == <<109, 97, 105, 108>>
S_Mail    == <<77, 97, 105, 108>>
S_gmail   == <<103, 109, 97, 105, 108>>
S_icloud  == <<105, 99, 108, 111, 117, 100>>
S_true    == <<116, 114, 117, 101>>
S_TRUE    == <<84, 82, 85, 69>>
S_false   == <<102, 97, 108, 115, 101>>
S_yes     == <<121, 101, 115>>
S_empty   == <<>>
\* "a@b", "ab", "c@d", "cd"
S_a_at_b  == <<97, 64, 98>>
S_ab      == <<97, 98>>
S_c_at_d  == <<99, 64, 100>>
S_cd      == <<99, 100>>
\* "Rome", " Rome "
S_Rome    == <<82, 111, 109, 101>>
S_RomeSp  == <<32, 82, 111, 109, 101, 32>>

\* str.strip(): leading and trailing whitespace removed
RECURSIVE LStrip(_)
LStrip(s) ==
    IF s # <<>> /\ Head(s) \in {9, 10, 13, 32} THEN LStrip(Tail(s)) ELSE s

RECURSIVE RStrip(_)
RStrip(s) ==
    IF s # <<>> /\ s[Len(s)] \in {9, 10, 13, 32} THEN RStrip(SubSeq(s, 1, Len(s) - 1)) ELSE s

Strip(s) == RStrip(LStrip(s))

\* str.lower() on ASCII text
Lower(s) == [i \in DOMAIN s |-> IF s[i] >= 65 /\ s[i] <= 90 THEN s[i] + 32 ELSE s[i]]

\* "@" in s
HasAt(s) == \E i \in DOMAIN s : s[i] = 64

\* An optional text: an unset environment variable, or a None argument
Unset == [set |-> FALSE, val |-> S_empty]
Val(s) == [set |-> TRUE, val |-> s]

\* os.getenv(name, default)
Getenv(v, default) == IF v.set THEN v.val ELSE default

\* A test for None only (`is not None`): "" passes it
TruthyUnlessNone(v) == v.set

\* Python truthiness of an optional text: None and "" are falsy
Truthy(v) == v.set /\ Len(v.val) > 0

----------------------------------------------------------------------------
(* Exceptions and the except chains of the tool functions *)

\* The classes an exception is an instance of (Python / smtplib / aiohttp
\* class hierarchy, as the except clauses of the tool functions match it).
Ancestors(exc) ==
    CASE exc = "SMTPAuthenticationError" ->
            {"SMTPAuthenticationError", "SMTPResponseException", "SMTPException", "OSError", "Exception"}
      [] exc = "SMTPRecipientsRefused" ->
            {"SMTPRecipientsRefused", "SMTPException", "OSError", "Exception"}
      [] exc \in {"SMTPSenderRefused", "SMTPDataError", "SMTPConnectError", "SMTPHeloError"} ->
            {exc, "SMTPResponseException", "SMTPException", "OSError", "Exception"}
      [] exc \in {"SMTPServerDisconnected", "SMTPNotSupportedError"} ->
            {exc, "SMTPException", "OSError", "Exception"}
      [] exc \in {"gaierror", "SSLError", "PermissionError", "ConnectionError"} ->
            {exc, "OSError", "Exception"}
      [] exc = "TimeoutError" -> {"TimeoutError", "Exception"}
      [] exc \in {"ClientConnectorError", "ContentTypeError", "ClientPayloadError"} ->
            {exc, "ClientError", "Exception"}
      [] exc = "JSONDecodeError" -> {"JSONDecodeError", "ValueError", "Exception"}
      [] OTHER -> {exc, "Exception"}

\* Python's try/except: the first clause of the chain that matches the
\* exception handles it; with no matching clause it propagates.
RECURSIVE Catch(_, _)
Catch(chain, exc) ==
    IF chain = <<>> THEN "uncaught"
    ELSE IF Head(chain) \in Ancestors(exc) THEN Head(chain)
    ELSE Catch(Tail(chain), exc)

\* The general clause written first: it shadows the specific ones
SendEmailHandlersGeneralFirst ==
    <<"SMTPException", "SMTPAuthenticationError", "SMTPRecipientsRefused", "Exception">>

\* except clauses of send_email, in source order
SendEmailHandlers ==
    <<"SMTPAuthenticationError", "SMTPRecipientsRefused", "SMTPException", "Exception">>

\* except clauses of get_weather_n8n, in source order
N8nHandlers(m) ==
    IF m = "toolsn8n"
    THEN <<"TimeoutError", "ClientError", "JSONDecodeError", "Exception">>
    ELSE <<"TimeoutError", "ClientError", "Exception">>

\* get_weather and search_web have the single clause `except Exception`
HttpHandlers == <<"Exception">>

----------------------------------------------------------------------------
(* Values handed back to the caller *)

NoRet == [type |-> "none", kind |-> "", names |-> <<>>, parts |-> <<>>]

\* A reply string: which sentence, what it names, and the variable parts
Str(kind, names, parts) == [type |-> "str", kind |-> kind, names |-> names, parts |-> parts]

\* An exception that leaves the tool function
Raised(exc) == [type |-> "raise", kind |-> exc, names |-> <<>>, parts |-> <<>>]

\* A JSON array handed back as it came
ListValue(kind) == [type |-> "list", kind |-> kind, names |-> <<>>, parts |-> <<>>]

\* One variable part of a reply
Tok(t, i, v) == [t |-> t, i |-> i, v |-> v]

NoResp == [kind |-> "none"]
ExcResp(exc) == [kind |-> "exc", exc |-> exc]
HttpResp(status, body) == [kind |-> "http", status |-> status, body |-> body]
NoBody == [parsed |-> "none"]

----------------------------------------------------------------------------
(* Inputs *)

Cities == {S_Rome, S_RomeSp}
DaysArgs == {-1, 0, 1, 2, 3, 4}
UnitsArgs == {<<67>>, <<99>>}
ToEmails == {S_a_at_b, S_ab}
CcEmails == {Unset, Val(S_c_at_d), Val(S_cd)}
ApiKeys == {Unset, Val(S_empty), Val(<<107>>)}
DemoModes == {Unset, Val(S_true), Val(S_TRUE), Val(S_false), Val(S_yes)}
ProviderEnvs == {Unset, Val(S_outlook), Val(S_OUTLOOK), Val(S_Yandex), Val(S_mail),
                 Val(S_gmail), Val(S_icloud)}
ProviderNames == {"gmail", "outlook", "yandex", "mail"}

\* The credential variables of the environment, per provider: "user" is
\* <P>_USER, "password" is <P>_PASSWORD (GMAIL_APP_PASSWORD for gmail).
\* Every variable that is set holds its own text.
UserText == [q \in ProviderNames |->
                CASE q = "gmail" -> <<117, 103>> [] q = "outlook" -> <<117, 111>>
                  [] q = "yandex" -> <<117, 121>> [] OTHER -> <<117, 109>>]
PasswordText == [q \in ProviderNames |->
                CASE q = "gmail" -> <<112, 103>> [] q = "outlook" -> <<112, 111>>
                  [] q = "yandex" -> <<112, 121>> [] OTHER -> <<112, 109>>]
CredsOnly(p) == [q \in ProviderNames |->
                    IF q = p THEN [user |-> Val(UserText[q]), password |-> Val(PasswordText[q])]
                    ELSE [user |-> Unset, password |-> Unset]]
CredsAll == [q \in ProviderNames |-> [user |-> Val(UserText[q]), password |-> Val(PasswordText[q])]]
CredsNoPassword == [q \in ProviderNames |-> [user |-> Val(UserText[q]), password |-> Val(S_empty)]]
CredEnvs == {CredsOnly(p) : p \in ProviderNames} \cup {CredsAll, CredsNoPassword}

NoArgs == [city |-> S_empty, days |-> 1, units |-> S_empty, to_email |-> S_empty, cc_email |-> Unset]
NoEnv == [WEATHER_API_KEY |-> Unset, TAVILY_API_KEY |-> Unset, EMAIL_DEMO_MODE |-> Unset,
          EMAIL_PROVIDER |-> Unset, creds |-> CredsOnly("none")]

HttpStatuses == {200, 400, 401, 404, 429, 500}

\* Limits written in the code
\* titles of 100 characters or more are not read out as sources
TitleLimit == 100
\* snippets longer than 200 characters are cut
SnippetLimit == 200
\* precipitation is mentioned above a 30% chance
PrecipThreshold == 30
\* days is clamped into MinDays..MaxDays
MinDays == 1
MaxDays == 3
\* every provider's SMTP submission port
SmtpPort == 587

\* Sequences over S of length at most n
RECURSIVE SeqsUpTo(_, _)
SeqsUpTo(S, n) ==
    IF n = 0 THEN {<<>>}
    ELSE LET shorter == SeqsUpTo(S, n - 1)
         IN  shorter \cup {Append(q, x) : q \in {r \in shorter : Len(r) = n - 1}, x \in S}

\* forecast.forecastday[i].day: the two chances the code reads
DayKinds == {[rain |-> 0, snow |-> 0], [rain |-> 80, snow |-> 0], [rain |-> 80, snow |-> 40],
             [rain |-> 30, snow |-> 30]}

\* Bodies of a 200 response of the weather provider: not JSON, or a JSON
\* object in which current, location and forecast may be missing.
WeatherBodies ==
    {[parsed |-> "no"]} \cup
    [parsed : {"yes"}, current : BOOLEAN, location : BOOLEAN,
     forecast : [present : {FALSE}, days : {<<>>}] \cup
                [present : {TRUE}, days : SeqsUpTo(DayKinds, MaxForecast)]]

\* results[i]: the lengths of its title and content (0: missing or empty)
ResultKinds == {[title |-> 5, content |-> 5], [title |-> 0, content |-> 0],
                [title |-> 100, content |-> 201]}

\* Bodies of a 200 response of the search provider
SearchBodies ==
    {[parsed |-> "no"]} \cup
    [parsed : {"yes"}, answer : {"absent", "empty", "text"},
     results : [present : {FALSE}, items : {<<>>}] \cup
               [present : {TRUE}, items : SeqsUpTo(ResultKinds, MaxResults)]]

\* Bodies of a response of the n8n webhook: wrong content type, invalid JSON,
\* JSON that is no object, or an object whose success and message may be
\* missing; message may be a string, an array, or another JSON value.
N8nBodies ==
    {[parsed |-> "bad_content_type"], [parsed |-> "bad_json"], [parsed |-> "not_object"]} \cup
    [parsed : {"yes"}, success : {"absent", "true", "false"},
     message : {"absent", "str", "list", "other"}]

----------------------------------------------------------------------------
(* get_weather *)

\* The lower limit left out: days = min(days, 3)
ClampDaysUpperOnly(d) == IF d < MaxDays THEN d ELSE MaxDays

\* days = min(max(days, 1), 3)
ClampDays(d) ==
    LET lo == IF d > MinDays THEN d ELSE MinDays
    IN  IF lo < MaxDays THEN lo ELSE MaxDays

\* The two tests in the other order: rain looked at before snow
PrecipRainFirst(day) ==
    IF day.rain > PrecipThreshold THEN "rain"
    ELSE IF day.snow > PrecipThreshold THEN "snow"
    ELSE "none"

\* The precipitation clause of one forecast entry
Precip(day) ==
    IF day.snow > PrecipThreshold THEN "snow"
    ELSE IF day.rain > PrecipThreshold THEN "rain"
    ELSE "none"

\* The forecast entries: every returned day but the first
RECURSIVE ForecastParts(_, _)
ForecastParts(fdays, i) ==
    IF i > Len(fdays) THEN <<>>
    ELSE IF i = 1 THEN ForecastParts(fdays, 2)
    ELSE <<Tok(IF i = 2 THEN "Tomorrow" ELSE "Day", i, Precip(fdays[i]))>>
         \o ForecastParts(fdays, i + 1)

\* The 200 branch of get_weather, inside the try block
WeatherReport(m, d, body) ==
    IF body.parsed # "yes" THEN Raised("ContentTypeError")
    ELSE IF ~body.current \/ ~body.location THEN Raised("KeyError")
    ELSE IF m = "toolscerebras"
         THEN Str("weather_report", <<>>, <<Tok("location", 0, ""), Tok("current", 0, "")>>)
    ELSE IF ~body.forecast.present THEN Raised("KeyError")
    ELSE Str("weather_report", <<>>,
             <<Tok("location", 0, ""), Tok("current", 0, "")>> \o
             (IF d > 1 THEN <<Tok("Forecast", 0, "")>> \o ForecastParts(body.forecast.days, 1)
              ELSE <<>>))

\* Every 4xx status taken for "city not found"
WeatherByStatusAny4xx(m, city, d, r) ==
    IF r.status = 200 THEN WeatherReport(m, d, r.body)
    ELSE IF r.status >= 400 /\ r.status < 500 THEN Str("weather_city_not_found", <<city>>, <<>>)
    ELSE Str("weather_service_trouble", <<>>, <<>>)

\* The status branches of get_weather (aitools.py, toolscerebras.py)
WeatherByStatus(m, city, d, r) ==
    IF r.status = 200 THEN WeatherReport(m, d, r.body)
    ELSE IF r.status = 400 THEN Str("weather_city_not_found", <<city>>, <<>>)
    ELSE Str("weather_service_trouble", <<>>, <<>>)

\* The status branches of get_weather in tools.py (wttr.in)
WttrByStatus(city, r) ==
    IF r.status = 200 THEN Str("wttr_text", <<>>, <<>>)
    ELSE Str("weather_could_not_retrieve", <<city>>, <<>>)

\* What a try block yields once its except chain has run: v itself when no
\* exception was raised, the handler's reply when a clause matches, and the
\* exception when none does.
Handled(chain, v, replyOf) ==
    IF v.type # "raise" THEN v
    ELSE IF Catch(chain, v.kind) = "uncaught" THEN v
    ELSE replyOf[Catch(chain, v.kind)]

\* get_weather from the response of its GET to the value it returns
GetWeatherReply(m, city, d, r) ==
    LET inTry == IF r.kind = "exc" THEN Raised(r.exc)
                 ELSE IF m = "tools" THEN WttrByStatus(city, r)
                 ELSE WeatherByStatus(m, city, d, r)
    IN  Handled(HttpHandlers, inTry,
                [h \in {"Exception"} |-> Str("weather_exception", <<city>>, <<>>)])

----------------------------------------------------------------------------
(* search_web *)

\* data["results"][:2] / [:3]
SourceLimit == 2
ResultLimit == 3

\* The titles read out after an answer: the first `upto` results whose title
\* is non-empty and shorter than 100 characters
RECURSIVE SourceParts(_, _, _)
SourceParts(items, i, upto) ==
    IF i > Len(items) \/ i > upto THEN <<>>
    ELSE (IF items[i].title > 0 /\ items[i].title < TitleLimit
          THEN <<Tok("title", i, "")>> ELSE <<>>)
         \o SourceParts(items, i + 1, upto)

\* The fallback reply of aitools.py / toolsn8n.py: title and snippet of each
\* of the first three results that has a snippet, then " ... " while the
\* zero-based index is below 2
RECURSIVE FallbackParts(_, _)
FallbackParts(items, i) ==
    IF i > Len(items) \/ i > ResultLimit THEN <<>>
    ELSE (IF items[i].content > 0
          THEN <<Tok("title", i, ""),
                 Tok("content", i, IF items[i].content > SnippetLimit THEN "cut" ELSE "whole")>>
               \o (IF i - 1 < 2 THEN <<Tok("sep", i, "")>> ELSE <<>>)
          ELSE <<>>)
         \o FallbackParts(items, i + 1)

\* The two branches in the other order: results looked at before the answer
SearchReportResultsFirst(body) ==
    IF body.parsed # "yes" THEN Raised("ContentTypeError")
    ELSE IF body.results.present /\ Len(body.results.items) > 0
         THEN Str("search_results", <<>>, FallbackParts(body.results.items, 1))
    ELSE IF body.answer = "text"
         THEN Str("search_answer", <<>>, <<Tok("answer", 0, "")>>)
    ELSE Str("search_limited", <<>>, <<>>)

\* The 200 branch of search_web in aitools.py and toolsn8n.py
SearchReport(body) ==
    IF body.parsed # "yes" THEN Raised("ContentTypeError")
    ELSE IF body.answer = "text"
         THEN Str("search_answer", <<>>,
                  <<Tok("answer", 0, "")>> \o
                  (IF body.results.present /\ Len(body.results.items) > 0
                   THEN SourceParts(body.results.items, 1, SourceLimit) ELSE <<>>))
    ELSE IF body.results.present /\ Len(body.results.items) > 0
         THEN Str("search_results", <<>>, FallbackParts(body.results.items, 1))
    ELSE Str("search_limited", <<>>, <<>>)

\* The 200 branch of search_web in toolscerebras.py: only the top result
SearchReportCerebras(body) ==
    IF body.parsed # "yes" THEN Raised("ContentTypeError")
    ELSE IF body.answer = "text"
         THEN Str("search_answer", <<>>,
                  <<Tok("answer", 0, "")>> \o
                  (IF body.results.present /\ Len(body.results.items) > 0
                   THEN SourceParts(body.results.items, 1, 1) ELSE <<>>))
    ELSE IF body.results.present /\ Len(body.results.items) > 0
         THEN IF body.results.items[1].content > 0
              THEN Str("search_results", <<>>,
                       <<Tok("title", 1, ""),
                         Tok("content", 1,
                             IF body.results.items[1].content > SnippetLimit THEN "cut" ELSE "whole")>>)
              ELSE Str("search_limited_details", <<>>, <<>>)
    ELSE Str("search_limited", <<>>, <<>>)

\* The 429 branch left out: a rate limit reported as generic trouble
SearchByStatusNo429(m, r) ==
    IF r.status = 200
    THEN (IF m = "toolscerebras" THEN SearchReportCerebras(r.body) ELSE SearchReport(r.body))
    ELSE IF r.status = 401 THEN Str("search_auth_issue", <<>>, <<>>)
    ELSE Str("search_service_trouble", <<>>, <<>>)

\* The status branches of search_web
SearchByStatus(m, r) ==
    IF r.status = 200
    THEN (IF m = "toolscerebras" THEN SearchReportCerebras(r.body) ELSE SearchReport(r.body))
    ELSE IF r.status = 401 THEN Str("search_auth_issue", <<>>, <<>>)
    ELSE IF r.status = 429 THEN Str("search_limit_reached", <<>>, <<>>)
    ELSE Str("search_service_trouble", <<>>, <<>>)

\* search_web from the outcome of its one call to the value it returns
SearchWebReply(m, r) ==
    LET inTry == IF r.kind = "exc" THEN Raised(r.exc)
                 ELSE IF m = "tools" THEN Str("ddg_results", <<>>, <<>>)
                 ELSE SearchByStatus(m, r)
    IN  Handled(HttpHandlers, inTry,
                [h \in {"Exception"} |-> Str("search_exception", <<>>, <<>>)])

----------------------------------------------------------------------------
(* get_weather_n8n *)

\* The 200 branch of get_weather_n8n.  On success the message is returned as
\* it came; on failure toolsn8n.py returns it behind "Weather service
\* error: ", agentn8n.py returns it as it came, the very value it returns on
\* success.
N8nReport(m, body) ==
    IF body.parsed = "bad_content_type" THEN Raised("ContentTypeError")
    ELSE IF body.parsed = "bad_json" THEN Raised("JSONDecodeError")
    ELSE IF body.parsed = "not_object" THEN Raised("AttributeError")
    ELSE IF body.message = "other" THEN Raised("TypeError")
    ELSE IF body.success = "true"
         THEN (IF body.message = "absent" THEN Str("n8n_default_success", <<>>, <<>>)
               ELSE IF body.message = "list" THEN ListValue("n8n_message")
               ELSE Str("n8n_message", <<>>, <<Tok("message", 0, "")>>))
    ELSE IF m = "toolsn8n"
         THEN Str("n8n_service_error", <<>>,
                  IF body.message = "absent" THEN <<>> ELSE <<Tok("message", 0, "")>>)
    ELSE IF body.message = "absent" THEN Str("n8n_default_failure", <<>>, <<>>)
    ELSE IF body.message = "list" THEN ListValue("n8n_message")
    ELSE Str("n8n_message", <<>>, <<Tok("message", 0, "")>>)

\* The status branches of get_weather_n8n; the non-200 branch reads the
\* body as text before it builds its reply
N8nByStatus(m, r) ==
    IF r.status = 200 THEN N8nReport(m, r.body)
    ELSE IF r.body.parsed = "unreadable" THEN Raised("ClientPayloadError")
    ELSE Str("n8n_status", <<>>, <<Tok("status", r.status, "")>>)

\* get_weather_n8n from the response of its POST to the value it returns
GetWeatherN8nReply(m, city, r) ==
    LET inTry == IF r.kind = "exc" THEN Raised(r.exc) ELSE N8nByStatus(m, r)
    IN  Handled(N8nHandlers(m), inTry,
                [h \in {"TimeoutError", "ClientError", "JSONDecodeError", "Exception"} |->
                    CASE h = "TimeoutError" -> Str("n8n_timeout", <<>>, <<>>)
                      [] h = "ClientError" -> Str("n8n_connect_failed", <<>>, <<>>)
                      [] h = "JSONDecodeError" -> Str("n8n_invalid_data", <<>>, <<>>)
                      [] OTHER -> Str("n8n_unexpected", <<city>>, <<>>)])

----------------------------------------------------------------------------
(* The outbound HTTP call *)

HttpTools == {"get_weather", "search_web", "get_weather_n8n"}

NoRequest == [url |-> "none", payload |-> <<>>]

\* N8N_WEATHER_URL
N8N_WEATHER_URL == "https://auto2025system.duckdns.org/webhook/smart-weather"

\* The field set left out: the payload without the clock reading
N8nPayloadFiveFields(m, a) ==
    [action |-> "weather", city |-> a.city, units |-> a.units,
     date |-> "today", user_id |-> "livekit_user"]

\* payload of get_weather_n8n: toolsn8n.py strips the city, lower-cases the
\* units and adds the event loop's clock reading; agentn8n.py sends the
\* arguments as they came
N8nPayload(m, a) ==
    IF m = "toolsn8n"
    THEN [action |-> "weather", city |-> Strip(a.city), units |-> Lower(a.units),
          date |-> "today", user_id |-> "livekit_user", timestamp |-> "loop_time"]
    ELSE [action |-> "weather", city |-> a.city, units |-> a.units,
          date |-> "today", user_id |-> "livekit_user"]

\* params of get_weather
WeatherParams(m, a, e, d) ==
    IF m = "aitools"
    THEN [key |-> e.WEATHER_API_KEY.val, q |-> a.city, days |-> d, aqi |-> "no", alerts |-> "no"]
    ELSE IF m = "toolscerebras"
    THEN [key |-> e.WEATHER_API_KEY.val, q |-> a.city, aqi |-> "no"]
    ELSE [city |-> a.city, format |-> "3"]

\* payload of search_web
SearchPayload(m, e) ==
    IF m = "tools" THEN [tool_input |-> "query"]
    ELSE [api_key |-> e.TAVILY_API_KEY.val, query |-> "query", search_depth |-> "basic",
          include_answer |-> TRUE, include_images |-> FALSE, include_raw_content |-> FALSE,
          max_results |-> 3, include_domains |-> <<>>, exclude_domains |-> <<>>]

\* The request a tool function sends
RequestOf(m, t, a, e, d) ==
    CASE t = "get_weather_n8n" -> [url |-> N8N_WEATHER_URL, payload |-> N8nPayload(m, a)]
      [] t = "get_weather" ->
            [url |-> (IF m = "aitools" THEN "http://api.weatherapi.com/v1/forecast.json"
                      ELSE IF m = "toolscerebras" THEN "http://api.weatherapi.com/v1/current.json"
                      ELSE "https://wttr.in/"),
             payload |-> WeatherParams(m, a, e, d)]
      [] OTHER ->
            [url |-> (IF m = "tools" THEN "DuckDuckGoSearchRun" ELSE "https://api.tavily.com/search"),
             payload |-> SearchPayload(m, e)]

\* The timeout the call is made with: the 15 s ClientTimeout of
\* get_weather_n8n, the default of the HTTP client library when the code
\* passes none to aiohttp (or to the DuckDuckGo client), and none at all
\* for requests.get.
TimeoutOf(m, t) ==
    IF t = "get_weather_n8n" THEN "explicit"
    ELSE IF m = "tools" /\ t = "get_weather" THEN "none"
    ELSE "library_default"

\* Response bodies the remote side may send to tool t
BodiesFor(m, t, status) ==
    IF t = "get_weather_n8n"
    THEN (IF status = 200 THEN N8nBodies ELSE {NoBody, [parsed |-> "unreadable"]})
    ELSE IF status # 200 \/ m = "tools" THEN {NoBody}
    ELSE IF t = "get_weather" THEN WeatherBodies
    ELSE SearchBodies

\* Outcomes of the outbound call: a response, a connection error, or, when
\* the server stays silent and a timeout is armed, the timeout.  With a
\* silent server and no timeout there is no outcome: the call never ends.
OutcomesFor(m, t, tmo) ==
    (IF m = "tools" /\ t = "search_web"
     THEN {[kind |-> "lib"]}
     ELSE UNION {{HttpResp(st, b) : b \in BodiesFor(m, t, st)} : st \in HttpStatuses})
    \cup {ExcResp(IF m = "tools" THEN "ConnectionError" ELSE "ClientConnectorError")}
    \cup (IF tmo # "none" THEN {ExcResp("TimeoutError")} ELSE {})

\* A retry loop around the request: a failed call is issued again
AfterReplyRetry(r) == IF r.kind = "exc" THEN "ready" ELSE "returned"

\* Where the tool function goes once the response, or the failure, of its
\* call has been turned into a reply: it returns; nothing loops back.
AfterReply(r) == "returned"

----------------------------------------------------------------------------
(* send_email *)

\* demo_mode = os.getenv("EMAIL_DEMO_MODE", "false").lower() == "true";
\* tools.py has no demo mode
DemoMode(m, e) ==
    m # "tools" /\ Lower(Getenv(e.EMAIL_DEMO_MODE, S_false)) = S_true

\* The provider name compared as written, without .lower()
EmailProviderAsWritten(e) == Getenv(e.EMAIL_PROVIDER, S_gmail)

\* email_provider = os.getenv("EMAIL_PROVIDER", "gmail").lower()
EmailProvider(e) == Lower(Getenv(e.EMAIL_PROVIDER, S_gmail))

\* The branch of the provider if/elif chain that is taken; toolscerebras.py
\* has the gmail settings only
ProviderBranch(m, e) ==
    IF m = "toolscerebras" THEN "gmail"
    ELSE IF EmailProvider(e) = S_outlook THEN "outlook"
    ELSE IF EmailProvider(e) = S_yandex THEN "yandex"
    ELSE IF EmailProvider(e) = S_mail THEN "mail"
    ELSE "gmail"

ServerOf == [q \in ProviderNames |->
                CASE q = "outlook" -> "smtp-mail.outlook.com"
                  [] q = "yandex" -> "smtp.yandex.ru"
                  [] q = "mail" -> "smtp.mail.ru"
                  [] OTHER -> "smtp.gmail.com"]

\* smtp_server, smtp_port, email_user, email_password as the branch sets them
SmtpConfig(m, e) ==
    LET b == ProviderBranch(m, e)
    IN  [server |-> ServerOf[b], port |-> SmtpPort,
         user |-> e.creds[b].user, password |-> e.creds[b].password]

\* recipients = [to_email] plus cc_email when it is non-empty and has an "@"
Recipients(a) ==
    <<a.to_email>> \o
    (IF Truthy(a.cc_email) /\ HasAt(a.cc_email.val) THEN <<a.cc_email.val>> ELSE <<>>)

\* What the success and the simulated replies name: to_email, and cc_email
\* whenever it is non-empty
Addressees(a) ==
    <<a.to_email>> \o (IF Truthy(a.cc_email) THEN <<a.cc_email.val>> ELSE <<>>)

SmtpSteps == <<"connect", "starttls", "login", "sendmail", "quit">>

\* login written before starttls
NextSmtpPcLoginFirst(m, st) ==
    CASE st = "connect" -> "login"
      [] st = "login" -> "starttls"
      [] st = "starttls" -> "sendmail"
      [] st = "sendmail" -> "quit"
      [] OTHER -> IF m = "tools" THEN "debug_write" ELSE "returned"

\* The statement that follows step st in the try block; after quit come the
\* success reply and, in tools.py, the local debug copy
NextSmtpPc(m, st) ==
    CASE st = "connect" -> "starttls"
      [] st = "starttls" -> "login"
      [] st = "login" -> "sendmail"
      [] st = "sendmail" -> "quit"
      [] OTHER -> IF m = "tools" THEN "debug_write" ELSE "returned"

\* Exceptions smtplib raises at each step
SmtpErrors(st) ==
    CASE st = "connect" -> {"SMTPConnectError", "gaierror"}
      [] st = "starttls" -> {"SMTPNotSupportedError", "SSLError"}
      [] st = "login" -> {"SMTPAuthenticationError", "SMTPServerDisconnected"}
      [] st = "sendmail" -> {"SMTPRecipientsRefused", "SMTPSenderRefused", "SMTPServerDisconnected"}
      [] OTHER -> {"SMTPServerDisconnected"}

\* What the credential and authentication messages name: the provider text
\* of EMAIL_PROVIDER; toolscerebras.py says "Gmail" whatever it holds
ProviderNamed(m, e) == IF m = "toolscerebras" THEN <<S_gmail>> ELSE <<EmailProvider(e)>>

\* The replies of send_email's except clauses
EmailErrorReply(m, e, a) ==
    [h \in {"SMTPAuthenticationError", "SMTPRecipientsRefused", "SMTPException", "Exception"} |->
        CASE h = "SMTPAuthenticationError" -> Str("email_auth_trouble", ProviderNamed(m, e), <<>>)
          [] h = "SMTPRecipientsRefused" -> Str("email_refused", <<a.to_email>>, <<>>)
          [] h = "SMTPException" -> Str("email_smtp_error", <<>>, <<>>)
          [] OTHER -> Str("email_unexpected_error", <<>>, <<>>)]

\* The two checks in the other order: the address first
EmailChecksAddressFirst(m, a, e) ==
    IF ~HasAt(a.to_email)
    THEN Str("email_bad_address", <<a.to_email>>, <<>>)
    ELSE IF ~Truthy(SmtpConfig(m, e).user) \/ ~Truthy(SmtpConfig(m, e).password)
    THEN Str("email_not_configured", ProviderNamed(m, e), <<>>)
    ELSE NoRet

\* The checks made before the message is built: the credentials of the
\* selected provider, then the "@" of to_email; the reply of the first that
\* fails, NoRet when both pass
EmailChecks(m, a, e) ==
    IF ~Truthy(SmtpConfig(m, e).user) \/ ~Truthy(SmtpConfig(m, e).password)
    THEN Str("email_not_configured", ProviderNamed(m, e), <<>>)
    ELSE IF ~HasAt(a.to_email)
    THEN Str("email_bad_address", <<a.to_email>>, <<>>)
    ELSE NoRet

\* The connection after a step: opened by connect, closed by quit, and
\* dropped by the library when the server has disconnected
ConnAfter(st, outcome, c) ==
    IF outcome = "ok"
    THEN (IF st = "connect" THEN "open" ELSE IF st = "quit" THEN "closed" ELSE c)
    ELSE IF outcome = "SMTPServerDisconnected" /\ c = "open" THEN "closed"
    ELSE c

----------------------------------------------------------------------------
(* The Agent object of the video agents *)

\* The agents with video code: agentcerebras.py reads ENABLE_VIDEO (default
\* "true"), agentopenai.py always processes video
VideoAgents == {"agentcerebras", "agentopenai"}

EnableVideoOf(f) ==
    IF f = "agentcerebras" THEN BOOLEAN
    ELSE IF f = "agentopenai" THEN {TRUE}
    ELSE {FALSE}

\* No user turn has been completed yet
NoMessage == [content |-> "none", image |-> 0, raised |-> "none"]

\* The Agent object after __init__
NewAssistant ==
    [entered |-> FALSE, listening |-> FALSE, gemini_llm |-> FALSE,
     video_stream |-> 0, frame_count |-> 0, latest_frame |-> 0, last_frame_time |-> 0,
     latest_video_description |-> 0, streams |-> 0]

----------------------------------------------------------------------------
Init ==
    /\ mod = "none"
    /\ tool = "none"
    /\ pc = "idle"
    /\ args = NoArgs
    /\ env = NoEnv
    /\ days = 1
    /\ resp = NoResp
    /\ ret = NoRet
    /\ requests = 0
    /\ request = NoRequest
    /\ timeout = "none"
    /\ smtp = <<>>
    /\ conn = "none"
    /\ files = <<>>
    /\ entry = "none"
    /\ ep = 0
    /\ steps = <<>>
    /\ estatus = "none"
    /\ enable_video = FALSE
    /\ assistant = NewAssistant
    /\ tasks = {}
    /\ closed = {}
    /\ tracks = 0
    /\ access = {}
    /\ clock = 0
    /\ message = NoMessage

\* The framework calls tool function t of module m: a fresh invocation.
Enter(m, t, a, e) ==
    /\ pc = "idle"
    /\ mod' = m
    /\ tool' = t
    /\ args' = a
    /\ env' = e
    /\ resp' = NoResp
    /\ requests' = 0
    /\ request' = NoRequest
    /\ timeout' = "none"
    /\ smtp' = <<>>
    /\ conn' = "none"
    /\ files' = <<>>
    /\ UNCHANGED jobVars

\* The tool function hands v back to its caller.
Finish(v) ==
    /\ ret' = v
    /\ pc' = "returned"

\* The caller has consumed the result; the next invocation may start.
Return ==
    /\ pc = "returned"
    /\ pc' = "idle"
    /\ mod' = "none"
    /\ tool' = "none"
    /\ args' = NoArgs
    /\ env' = NoEnv
    /\ days' = 1
    /\ resp' = NoResp
    /\ ret' = NoRet
    /\ requests' = 0
    /\ request' = NoRequest
    /\ timeout' = "none"
    /\ smtp' = <<>>
    /\ conn' = "none"
    /\ files' = <<>>
    /\ UNCHANGED jobVars

----------------------------------------------------------------------------
(* Actions: the HTTP tools *)

\* get_weather is called: the API key check and the clamp of days
get_weather_call(m, a, e) ==
    /\ Enter(m, "get_weather", a, e)
    /\ IF m # "tools" /\ ~Truthy(e.WEATHER_API_KEY)
       THEN /\ days' = a.days
            /\ Finish(Str("weather_not_configured", <<>>, <<>>))
       ELSE /\ days' = (IF m = "aitools" THEN ClampDays(a.days) ELSE a.days)
            /\ pc' = "ready"
            /\ ret' = NoRet

\* search_web is called: the API key check
search_web_call(m, a, e) ==
    /\ Enter(m, "search_web", a, e)
    /\ days' = a.days
    /\ IF m # "tools" /\ ~Truthy(e.TAVILY_API_KEY)
       THEN Finish(Str("search_not_configured", <<>>, <<>>))
       ELSE /\ pc' = "ready"
            /\ ret' = NoRet

\* get_weather_n8n is called: the payload is built
get_weather_n8n_call(m, a, e) ==
    /\ Enter(m, "get_weather_n8n", a, e)
    /\ days' = a.days
    /\ pc' = "ready"
    /\ ret' = NoRet

\* session.get / session.post / requests.get: the request goes out
HttpSend ==
    /\ pc = "ready"
    /\ tool \in HttpTools
    /\ requests' = requests + 1
    /\ request' = RequestOf(mod, tool, args, env, days)
    /\ timeout' = TimeoutOf(mod, tool)
    /\ pc' = "http_wait"
    /\ UNCHANGED <<mod, tool, args, env, days, resp, ret, smtp, conn, files>>
    /\ UNCHANGED jobVars

\* The reply of the running HTTP tool to outcome r
HttpReply(r) ==
    CASE tool = "get_weather" -> GetWeatherReply(mod, args.city, days, r)
      [] tool = "search_web" -> SearchWebReply(mod, r)
      [] OTHER -> GetWeatherN8nReply(mod, args.city, r)

\* The call ends (response, connection error or timeout) and the tool
\* function turns the outcome into its reply
HttpComplete ==
    /\ pc = "http_wait"
    /\ \E r \in OutcomesFor(mod, tool, timeout) :
          /\ resp' = r
          /\ ret' = HttpReply(r)
          /\ pc' = AfterReply(r)
    /\ UNCHANGED <<mod, tool, args, env, days, requests, request, timeout, smtp, conn, files>>
    /\ UNCHANGED jobVars

----------------------------------------------------------------------------
(* Actions: send_email *)

\* send_email is called: demo-mode check, provider selection, credential
\* check and recipient check
send_email_call(m, a, e) ==
    /\ Enter(m, "send_email", a, e)
    /\ days' = a.days
    /\ IF DemoMode(m, e)
       THEN /\ pc' = "demo_write"
            /\ ret' = NoRet
       ELSE IF EmailChecks(m, a, e) # NoRet
       THEN Finish(EmailChecks(m, a, e))
       ELSE /\ pc' = "connect"
            /\ ret' = NoRet

\* Demo mode: the e-mail is written to a local file, outside any try block
DemoWrite ==
    /\ pc = "demo_write"
    /\ \/ /\ files' = Append(files, "demo_email")
          /\ Finish(Str("email_simulated", Addressees(args), <<>>))
       \/ /\ files' = files
          /\ Finish(Raised("PermissionError"))
    /\ UNCHANGED <<mod, tool, args, env, days, resp, requests, request, timeout, smtp, conn>>
    /\ UNCHANGED jobVars

\* One step of the SMTP dialogue: it succeeds, or smtplib raises and the
\* except chain of send_email turns the exception into the reply
SmtpStep ==
    /\ pc \in {SmtpSteps[i] : i \in DOMAIN SmtpSteps}
    /\ \E outcome \in {"ok"} \cup SmtpErrors(pc) :
          /\ smtp' = Append(smtp, [step |-> pc, outcome |-> outcome,
                                   server |-> SmtpConfig(mod, env).server,
                                   port |-> SmtpConfig(mod, env).port,
                                   user |-> SmtpConfig(mod, env).user.val,
                                   password |-> SmtpConfig(mod, env).password.val,
                                   rcpt |-> Recipients(args)])
          /\ conn' = ConnAfter(pc, outcome, conn)
          /\ resp' = IF outcome = "ok" THEN resp ELSE ExcResp(outcome)
          /\ IF outcome = "ok"
             THEN /\ pc' = NextSmtpPc(mod, pc)
                  /\ ret' = IF NextSmtpPc(mod, pc) = "returned"
                            THEN Str("email_sent", Addressees(args), <<>>) ELSE ret
             ELSE Finish(Handled(SendEmailHandlers, Raised(outcome), EmailErrorReply(mod, env, args)))
    /\ requests' = IF pc = "connect" THEN requests + 1 ELSE requests
    /\ UNCHANGED <<mod, tool, args, env, days, request, timeout, files>>
    /\ UNCHANGED jobVars

\* tools.py: the local debug copy, written inside the try block after quit
DebugWrite ==
    /\ pc = "debug_write"
    /\ \/ /\ files' = Append(files, "sent_email")
          /\ resp' = resp
          /\ Finish(Str("email_sent", Addressees(args), <<>>))
       \/ /\ files' = files
          /\ resp' = ExcResp("PermissionError")
          /\ Finish(Handled(SendEmailHandlers, Raised("PermissionError"), EmailErrorReply(mod, env, args)))
    /\ UNCHANGED <<mod, tool, args, env, days, requests, request, timeout, smtp, conn>>
    /\ UNCHANGED jobVars

----------------------------------------------------------------------------
(* The calls the framework may make *)

WeatherArgs(m) ==
    {[NoArgs EXCEPT !.city = c, !.days = d] :
        c \in Cities, d \in (IF m = "aitools" THEN DaysArgs ELSE {1})}

WeatherEnvs(m) ==
    {[NoEnv EXCEPT !.WEATHER_API_KEY = k] : k \in (IF m = "tools" THEN {Unset} ELSE ApiKeys)}

SearchEnvs(m) ==
    {[NoEnv EXCEPT !.TAVILY_API_KEY = k] : k \in (IF m = "tools" THEN {Unset} ELSE ApiKeys)}

N8nArgs == {[NoArgs EXCEPT !.city = c, !.units = u] : c \in Cities, u \in UnitsArgs}

EmailArgs(m) ==
    {[NoArgs EXCEPT !.to_email = t, !.cc_email = c] :
        t \in ToEmails, c \in (IF m = "toolscerebras" THEN {Unset} ELSE CcEmails)}

EmailEnvs(m) ==
    {[NoEnv EXCEPT !.EMAIL_DEMO_MODE = d, !.EMAIL_PROVIDER = p, !.creds = c] :
        d \in DemoModes,
        p \in (IF m = "toolscerebras" THEN {Unset, Val(S_outlook)} ELSE ProviderEnvs),
        c \in CredEnvs}

Next ==
    \/ \E m \in {"aitools", "toolscerebras", "tools"} :
          \E a \in WeatherArgs(m), e \in WeatherEnvs(m) : get_weather_call(m, a, e)
    \/ \E m \in {"aitools", "toolscerebras", "toolsn8n", "tools"} :
          \E e \in SearchEnvs(m) : search_web_call(m, NoArgs, e)
    \/ \E m \in {"toolsn8n", "agentn8n"} :
          \E a \in N8nArgs : get_weather_n8n_call(m, a, NoEnv)
    \/ \E m \in {"aitools", "toolscerebras", "toolsn8n", "tools"} :
          \E a \in EmailArgs(m), e \in EmailEnvs(m) : send_email_call(m, a, e)
    \/ HttpSend
    \/ HttpComplete
    \/ DemoWrite
    \/ SmtpStep
    \/ DebugWrite
    \/ Return

Spec == Init /\ [][Next]_vars

----------------------------------------------------------------------------
(* The agent entrypoints *)

AgentFiles == {"agent", "agent_groq", "agentcerebras", "agentn8n", "agentn8n_cerebras",
               "agentn8n_gemini", "agentn8n_openai", "agentopenai", "aiagent", "aiagent2"}

\* The steps of each entrypoint, in source order.  "probe" is the check of
\* the tools made before the room is joined (test_n8n_connection,
\* startup_tools_validation); "idle" is the `while True: sleep` loop.
entrypoint_agent ==
    <<"connect", "agent", "session", "callbacks", "start", "greeting">>
entrypoint_agent_groq ==
    <<"connect", "agent", "session", "start", "greeting">>
entrypoint_agentcerebras ==
    <<"connect", "agent", "session", "callbacks", "start", "greeting", "idle">>
entrypoint_agentn8n ==
    <<"probe", "connect", "agent", "session", "callbacks", "start", "greeting", "idle">>
entrypoint_agentn8n_cerebras ==
    <<"probe", "connect", "agent", "session", "callbacks", "start", "greeting", "idle">>
entrypoint_agentn8n_gemini ==
    <<"connect", "agent", "session", "callbacks", "start", "greeting", "idle">>
entrypoint_agentn8n_openai ==
    <<"probe", "connect", "agent", "session", "callbacks", "start", "greeting", "idle">>
entrypoint_agentopenai ==
    <<"connect", "agent", "session", "callbacks", "start", "greeting", "idle">>
entrypoint_aiagent ==
    <<"connect", "agent", "session", "callbacks", "start", "greeting", "idle">>
entrypoint_aiagent2 ==
    <<"connect", "agent", "session", "callbacks", "start", "greeting", "idle">>

\* The session started before the callbacks are attached
ProgramStartEarly(f) ==
    <<"connect", "agent", "session", "start", "callbacks", "greeting", "idle">>

Program(f) ==
    CASE f = "agent" -> entrypoint_agent
      [] f = "agent_groq" -> entrypoint_agent_groq
      [] f = "agentcerebras" -> entrypoint_agentcerebras
      [] f = "agentn8n" -> entrypoint_agentn8n
      [] f = "agentn8n_cerebras" -> entrypoint_agentn8n_cerebras
      [] f = "agentn8n_gemini" -> entrypoint_agentn8n_gemini
      [] f = "agentn8n_openai" -> entrypoint_agentn8n_openai
      [] f = "agentopenai" -> entrypoint_agentopenai
      [] f = "aiagent" -> entrypoint_aiagent
      [] OTHER -> entrypoint_aiagent2

\* generate_reply stands in a try block whose except clause logs and goes
\* on; agent_groq.py awaits it bare
GreetingGuarded(f) == f # "agent_groq"

\* The step the entrypoint is about to perform
AtStep(name) ==
    /\ estatus = "running"
    /\ ep <= Len(Program(entry))
    /\ Program(entry)[ep] = name

\* A step was performed with the given outcome and the entrypoint goes on
Proceed(name, outcome) ==
    /\ steps' = Append(steps, [step |-> name, outcome |-> outcome])
    /\ ep' = ep + 1
    /\ estatus' = estatus
    /\ entry' = entry

\* A step raised and nothing in the entrypoint catches it
Escape(name) ==
    /\ steps' = Append(steps, [step |-> name, outcome |-> "raised"])
    /\ ep' = ep
    /\ estatus' = "raised"
    /\ entry' = entry

\* The worker runs the entrypoint of script f for a new job
StartEntrypoint(f) ==
    /\ estatus = "none"
    /\ entry' = f
    /\ ep' = 1
    /\ steps' = <<>>
    /\ estatus' = "running"
    /\ enable_video' \in EnableVideoOf(f)
    /\ UNCHANGED <<assistant, tasks, closed, tracks, access>>
    /\ UNCHANGED toolVars
    /\ UNCHANGED turnVars

\* test_n8n_connection / startup_tools_validation: either result is logged
\* and the entrypoint goes on
TestConnection ==
    /\ AtStep("probe")
    /\ \E outcome \in {"ok", "failed"} : Proceed("probe", outcome)
    /\ UNCHANGED toolVars
    /\ UNCHANGED turnVars
    /\ UNCHANGED videoVars

\* await ctx.connect()
Connect ==
    /\ AtStep("connect")
    /\ \/ Proceed("connect", "ok")
       \/ Escape("connect")
    /\ UNCHANGED toolVars
    /\ UNCHANGED turnVars
    /\ UNCHANGED videoVars

\* agent = Agent(...) / Assistant()
ConstructAgent ==
    /\ AtStep("agent")
    /\ Proceed("agent", "ok")
    /\ UNCHANGED toolVars
    /\ UNCHANGED turnVars
    /\ UNCHANGED videoVars

\* session = AgentSession(...)
ConstructSession ==
    /\ AtStep("session")
    /\ Proceed("session", "ok")
    /\ UNCHANGED toolVars
    /\ UNCHANGED turnVars
    /\ UNCHANGED videoVars

\* the @session.on(...) handlers / setup_session_events(session)
AttachCallbacks ==
    /\ AtStep("callbacks")
    /\ Proceed("callbacks", "ok")
    /\ UNCHANGED toolVars
    /\ UNCHANGED turnVars
    /\ UNCHANGED videoVars

\* await session.start(agent=agent, room=ctx.room)
StartSession ==
    /\ AtStep("start")
    /\ \/ Proceed("start", "ok")
       \/ Escape("start")
    /\ UNCHANGED toolVars
    /\ UNCHANGED turnVars
    /\ UNCHANGED videoVars

\* await session.generate_reply(...): a failure is caught and logged where
\* the call is guarded, and leaves the entrypoint where it is not
GenerateGreeting ==
    /\ AtStep("greeting")
    /\ \/ Proceed("greeting", "ok")
       \/ IF GreetingGuarded(entry) THEN Proceed("greeting", "raised") ELSE Escape("greeting")
    /\ UNCHANGED toolVars
    /\ UNCHANGED turnVars
    /\ UNCHANGED videoVars

\* while True: await asyncio.sleep(...)
Idle ==
    /\ AtStep("idle")
    /\ steps' = IF steps[Len(steps)].step = "idle" THEN steps
                ELSE Append(steps, [step |-> "idle", outcome |-> "ok"])
    /\ UNCHANGED <<entry, ep, estatus>>
    /\ UNCHANGED toolVars
    /\ UNCHANGED turnVars
    /\ UNCHANGED videoVars

\* The entrypoint function runs off its end
EntrypointReturn ==
    /\ estatus = "running"
    /\ ep > Len(Program(entry))
    /\ estatus' = "returned"
    /\ UNCHANGED <<entry, ep, steps>>
    /\ UNCHANGED toolVars
    /\ UNCHANGED turnVars
    /\ UNCHANGED videoVars

\* The job is over (the entrypoint returned or raised, or the worker was
\* stopped while idling); the worker is free for the next job
JobEnd ==
    /\ \/ estatus \in {"returned", "raised"}
       \/ AtStep("idle")
    /\ entry' = "none"
    /\ ep' = 0
    /\ steps' = <<>>
    /\ estatus' = "none"
    /\ enable_video' = FALSE
    /\ assistant' = NewAssistant
    /\ tasks' = {}
    /\ closed' = {}
    /\ tracks' = 0
    /\ access' = {}
    /\ clock' = 0
    /\ message' = NoMessage
    /\ UNCHANGED toolVars

\* ---- Video processing (agentcerebras.py, agentopenai.py) ----

\* video tracks handed to one agent job in the model
MaxTracks == 2
\* frames delivered to one agent job in the model
MaxFrames == 61
\* the camera delivers FramesPerSecond frames a second; without frames the
\* clock moves TickSeconds at a time, up to MaxClock seconds
FramesPerSecond == 10
MaxClock == 10
TickSeconds == 5
\* a stored frame is used while it is younger than this many seconds
FreshSeconds == 10

\* agentopenai.py looking at every fifth frame
FrameStrideFive(f) == IF f = "agentcerebras" THEN 60 ELSE 5

\* Every how many frames a frame is looked at
FrameStride(f) == IF f = "agentcerebras" THEN 60 ELSE 10

\* A task is named by what it runs and for what: <<"setup", k>> sets up the
\* k-th track, <<"frames", k>> was created for the k-th stream,
\* <<"analyze", n>> describes frame n.  The code the framework runs itself
\* (on_enter and the callbacks) is the framework's task.
FrameworkTask == <<"framework", 0>>

Task(id, kind, stream, frame) == [id |-> id, kind |-> kind, stream |-> stream, frame |-> frame]

Acc(t, field, mode) == [task |-> t, field |-> field, mode |-> mode]

\* The session has started: the framework runs the agent
SessionRunning ==
    /\ estatus = "running"
    /\ \E i \in DOMAIN steps : steps[i] = [step |-> "start", outcome |-> "ok"]

\* _setup_video_stream(track) run by task t on the Agent object a with the
\* tasks ts: the previous stream is closed, a new one is created and a task
\* is created to read its frames
SetupVideoStream(t, a, ts) ==
    [assistant |-> [a EXCEPT !.video_stream = a.streams + 1,
                             !.streams = a.streams + 1],
     tasks |-> ts \cup {Task(<<"frames", a.streams + 1>>, "frames", 0, 0)},
     closed |-> IF a.video_stream # 0 THEN closed \cup {a.video_stream} ELSE closed,
     access |-> access \cup {Acc(t, "_video_stream", "r"), Acc(t, "_video_stream", "w"),
                             Acc(t, "_video_tasks", "w")}]

\* on_enter: with video enabled the Gemini LLM is created (agentcerebras.py;
\* on failure on_enter returns), an existing video track is set up at once,
\* and the track_subscribed handler is registered
OnEnter ==
    /\ SessionRunning
    /\ entry \in VideoAgents
    /\ ~assistant.entered
    /\ IF ~enable_video
       THEN /\ assistant' = [assistant EXCEPT !.entered = TRUE]
            /\ UNCHANGED <<tasks, closed, tracks, access>>
       ELSE \/ /\ entry = "agentcerebras"
               /\ assistant' = [assistant EXCEPT !.entered = TRUE]
               /\ UNCHANGED <<tasks, closed, tracks, access>>
            \/ \E existing \in BOOLEAN :
                  LET a == [assistant EXCEPT !.entered = TRUE, !.listening = TRUE,
                                             !.gemini_llm = (entry = "agentcerebras")]
                      after == SetupVideoStream(FrameworkTask, a, tasks)
                  IN  IF existing
                      THEN /\ assistant' = after.assistant
                           /\ tasks' = after.tasks
                           /\ closed' = after.closed
                           /\ access' = after.access
                           /\ tracks' = tracks + 1
                      ELSE /\ assistant' = a
                           /\ UNCHANGED <<tasks, closed, tracks, access>>
    /\ UNCHANGED <<entryVars, enable_video>>
    /\ UNCHANGED toolVars
    /\ UNCHANGED turnVars

\* on_track_subscribed for a video track:
\* asyncio.create_task(self._setup_video_stream(track))
TrackSubscribed ==
    /\ SessionRunning
    /\ assistant.listening
    /\ tracks < MaxTracks
    /\ tracks' = tracks + 1
    /\ tasks' = tasks \cup {Task(<<"setup", tracks + 1>>, "setup", 0, 0)}
    /\ UNCHANGED <<entryVars, enable_video, assistant, closed, access>>
    /\ UNCHANGED toolVars
    /\ UNCHANGED turnVars

\* A task created by on_track_subscribed runs _setup_video_stream and ends
RunSetupTask ==
    /\ SessionRunning
    /\ \E t \in tasks :
          /\ t.kind = "setup"
          /\ LET after == SetupVideoStream(t.id, assistant, tasks \ {t})
             IN  /\ assistant' = after.assistant
                 /\ tasks' = after.tasks
                 /\ closed' = after.closed
                 /\ access' = after.access
    /\ UNCHANGED <<entryVars, enable_video, tracks>>
    /\ UNCHANGED toolVars
    /\ UNCHANGED turnVars

\* _process_video_frames begins: `async for event in self._video_stream`
\* takes the stream the field holds at that moment
ProcessVideoFramesStart ==
    /\ SessionRunning
    /\ \E t \in tasks :
          /\ t.kind = "frames"
          /\ t.stream = 0
          /\ tasks' = (tasks \ {t}) \cup {[t EXCEPT !.stream = assistant.video_stream]}
          /\ access' = access \cup {Acc(t.id, "_video_stream", "r")}
    /\ UNCHANGED <<entryVars, enable_video, assistant, closed, tracks>>
    /\ UNCHANGED toolVars
    /\ UNCHANGED turnVars

\* One frame arrives in a _process_video_frames loop, FramesPerSecond of them
\* in a second: the counter goes up;
\* every FrameStride-th frame is encoded and, when the encoding succeeds,
\* kept as the latest frame; agentcerebras.py also creates a task that has
\* Gemini describe it
ProcessVideoFrame ==
    /\ SessionRunning
    /\ assistant.frame_count < MaxFrames
    /\ \E t \in tasks :
          /\ t.kind = "frames"
          /\ t.stream # 0
          /\ t.stream \notin closed
          /\ LET n == assistant.frame_count + 1
                 now == IF n % FramesPerSecond = 0 THEN clock + 1 ELSE clock
                 counted == [assistant EXCEPT !.frame_count = n]
             IN  IF n % FrameStride(entry) # 0
                 THEN /\ assistant' = counted
                      /\ tasks' = tasks
                      /\ access' = access \cup {Acc(t.id, "_frame_count", "w")}
                 ELSE \E encoded \in BOOLEAN :
                        IF ~encoded
                        THEN /\ assistant' = counted
                             /\ tasks' = tasks
                             /\ access' = access \cup {Acc(t.id, "_frame_count", "w")}
                        ELSE /\ assistant' =
                                  [counted EXCEPT !.latest_frame = n, !.last_frame_time = now]
                             /\ tasks' = IF entry = "agentcerebras"
                                         THEN tasks \cup {Task(<<"analyze", n>>, "analyze", 0, n)}
                                         ELSE tasks
                             /\ access' = access \cup {Acc(t.id, "_frame_count", "w"),
                                                       Acc(t.id, "_latest_frame", "w")}
    /\ clock' = IF (assistant.frame_count + 1) % FramesPerSecond = 0 THEN clock + 1 ELSE clock
    /\ UNCHANGED <<entryVars, enable_video, closed, tracks, message>>
    /\ UNCHANGED toolVars

\* The stream a _process_video_frames loop reads has been closed: the loop
\* and its task end
ProcessVideoFramesEnd ==
    /\ SessionRunning
    /\ \E t \in tasks :
          /\ t.kind = "frames"
          /\ t.stream \in closed
          /\ tasks' = tasks \ {t}
          /\ access' = access \cup {Acc(FrameworkTask, "_video_tasks", "w")}
    /\ UNCHANGED <<entryVars, enable_video, assistant, closed, tracks>>
    /\ UNCHANGED toolVars
    /\ UNCHANGED turnVars

\* _analyze_frame_with_gemini ends: Gemini's text becomes the latest video
\* description, an empty answer leaves it, an exception clears it
AnalyzeFrameWithGemini ==
    /\ SessionRunning
    /\ \E t \in tasks :
          /\ t.kind = "analyze"
          /\ tasks' = tasks \ {t}
          /\ \E answer \in {"text", "empty", "raised"} :
                /\ assistant' =
                      [assistant EXCEPT !.latest_video_description =
                            IF answer = "text" THEN t.frame
                            ELSE IF answer = "raised" THEN 0 ELSE @]
                /\ access' = access \cup
                      ({Acc(t.id, "_gemini_llm", "r")} \cup
                       (IF answer = "empty" THEN {}
                        ELSE {Acc(t.id, "_latest_video_description", "w")}))
    /\ UNCHANGED <<entryVars, enable_video, closed, tracks>>
    /\ UNCHANGED toolVars
    /\ UNCHANGED turnVars

\* Time passes
Tick ==
    /\ SessionRunning
    /\ clock < MaxClock
    /\ clock' = clock + TickSeconds
    /\ UNCHANGED <<entryVars, videoVars, message>>
    /\ UNCHANGED toolVars

\* The age test left out: any stored frame is taken
FrameIsFreshWhenStored(a, now) == a.latest_frame # 0

\* A frame has been stored and it is younger than FreshSeconds
FrameIsFresh(a, now) ==
    /\ a.latest_frame # 0
    /\ now - a.last_frame_time < FreshSeconds

\* on_user_turn_completed of agentopenai.py for a message whose content is a
\* list, something else, or missing: a fresh stored frame is appended to a
\* list content; what is raised on the way (the import of ImageContent
\* failing) meets the clause `except Exception` and is logged
OnUserTurnCompleted ==
    /\ SessionRunning
    /\ entry = "agentopenai"
    /\ \E content \in {"list", "str", "absent"}, imported \in BOOLEAN :
          LET fresh == FrameIsFresh(assistant, clock)
          IN  message' =
                 [content |-> content,
                  image |-> IF fresh /\ imported /\ content = "list"
                            THEN assistant.latest_frame ELSE 0,
                  raised |-> IF fresh /\ ~imported /\ Catch(<<"Exception">>, "ImportError") = "uncaught"
                             THEN "ImportError" ELSE "none"]
    /\ UNCHANGED <<entryVars, videoVars, clock>>
    /\ UNCHANGED toolVars

JobNext ==
    \/ \E f \in AgentFiles : StartEntrypoint(f)
    \/ TestConnection
    \/ Connect
    \/ ConstructAgent
    \/ ConstructSession
    \/ AttachCallbacks
    \/ StartSession
    \/ GenerateGreeting
    \/ Idle
    \/ EntrypointReturn
    \/ JobEnd
    \/ OnEnter
    \/ TrackSubscribed
    \/ RunSetupTask
    \/ ProcessVideoFramesStart
    \/ ProcessVideoFrame
    \/ ProcessVideoFramesEnd
    \/ AnalyzeFrameWithGemini

JobSpec == Init /\ [][JobNext]_vars

\* A job of agentopenai.py with the clock running and the user speaking; the
\* room holds its video track, if any, when the agent enters
TurnNext ==
    \/ StartEntrypoint("agentopenai")
    \/ Connect
    \/ ConstructAgent
    \/ ConstructSession
    \/ AttachCallbacks
    \/ StartSession
    \/ GenerateGreeting
    \/ Idle
    \/ JobEnd
    \/ OnEnter
    \/ ProcessVideoFramesStart
    \/ ProcessVideoFrame
    \/ Tick
    \/ OnUserTurnCompleted

TurnSpec == Init /\ [][TurnNext]_vars

----------------------------------------------------------------------------
(* Properties *)

Returned(t) == pc = "returned" /\ tool = t

HasTok(parts, t) == \E i \in DOMAIN parts : parts[i].t = t

\* C1: whatever the outcome of the external call (any status, timeout,
\* connection error, malformed or incomplete body), get_weather, search_web
\* and get_weather_n8n hand a string back to the caller and never raise.
C1_HttpToolReturnsString ==
    (pc = "returned" /\ tool \in HttpTools) => ret.type = "str"

\* C2: send_email hands a string back and never raises, in every
\* configuration and for every outcome of each step it performs (local file
\* write, connect, STARTTLS, login, sendmail, quit).
C2_SendEmailReturnsString ==
    Returned("send_email") => ret.type = "str"

\* C3: one invocation issues at most one outbound request (one HTTP request,
\* or one SMTP connection); once the request has failed or been answered the
\* invocation is over and never issues it again.
C3_SingleRequest ==
    /\ requests <= 1
    /\ resp.kind # "none" => pc = "returned"

C3_Witness ==
    /\ pc = "returned"
    /\ tool \in HttpTools
    /\ resp.kind = "exc"
    /\ requests = 1

\* C4: every tool function makes its outbound call with a timeout: whenever
\* a call is in flight (an HTTP request sent, an SMTP connection open), a
\* timeout is armed on it, so that a silent server cannot hold the
\* invocation forever.
C4_CallHasTimeout ==
    (pc = "http_wait" \/ conn = "open") => timeout # "none"

\* The weather providers' 200 body carries what the module reads from it
WeatherBodyComplete(m, body) ==
    /\ body.parsed = "yes"
    /\ body.current
    /\ body.location
    /\ m = "aitools" => body.forecast.present

\* get_weather of aitools.py / toolscerebras.py has returned after a response
WeatherAnswered ==
    /\ Returned("get_weather")
    /\ mod \in {"aitools", "toolscerebras"}
    /\ resp.kind = "http"

WeatherNon200Mapping ==
    /\ resp.status = 400 => ret = Str("weather_city_not_found", <<args.city>>, <<>>)
    /\ resp.status \notin {200, 400} => ret = Str("weather_service_trouble", <<>>, <<>>)

IsWeatherSentence(v) ==
    /\ v.type = "str"
    /\ v.kind = "weather_report"
    /\ HasTok(v.parts, "current")
    /\ HasTok(v.parts, "location")

SearchPosted ==
    /\ Returned("search_web")
    /\ mod \in {"aitools", "toolscerebras", "toolsn8n"}
    /\ resp.kind = "http"

\* C6: search_web maps the status of its POST: 401 returns the fixed
\* authentication message, 429 the fixed search-limit message, every status
\* other than 200, 401 and 429 the fixed generic message, and only a 200
\* yields a reply built from the response body.
C6_SearchStatusMapping ==
    SearchPosted =>
        /\ resp.status = 401 => ret = Str("search_auth_issue", <<>>, <<>>)
        /\ resp.status = 429 => ret = Str("search_limit_reached", <<>>, <<>>)
        /\ resp.status \notin {200, 401, 429} => ret = Str("search_service_trouble", <<>>, <<>>)
        /\ ret.kind \in {"search_answer", "search_results", "search_limited",
                         "search_limited_details"} => resp.status = 200

C6_Witness ==
    /\ SearchPosted
    /\ resp.status = 429
    /\ ret.kind = "search_limit_reached"

\* search_web got a 200 whose body is a JSON object
SearchGot200 ==
    /\ SearchPosted
    /\ resp.status = 200
    /\ resp.body.parsed = "yes"

NoResults(body) == ~body.results.present \/ body.results.items = <<>>

\* C7: on a 200, a non-empty answer wins: the reply is the answer followed
\* by nothing but source titles, with no results[].content in it; content
\* is used only when the answer is absent or empty, and only of the first
\* three results; with neither answer nor results the fixed "found limited
\* information" reply is returned.
C7_AnswerPreferred ==
    SearchGot200 =>
        /\ resp.body.answer = "text" =>
              /\ ret.kind = "search_answer"
              /\ ret.parts[1].t = "answer"
              /\ \A i \in 2..Len(ret.parts) : ret.parts[i].t = "title"
        /\ \A i \in DOMAIN ret.parts :
              ret.parts[i].t = "content" =>
                  /\ resp.body.answer # "text"
                  /\ ret.parts[i].i <= 3
                  /\ ret.parts[i].i <= Len(resp.body.results.items)
        /\ resp.body.answer # "text" /\ NoResults(resp.body)
              => ret = Str("search_limited", <<>>, <<>>)

C7_Witness ==
    /\ SearchGot200
    /\ resp.body.answer = "text"
    /\ Len(resp.body.results.items) > 0
    /\ resp.body.results.items[1].content > 0
    /\ ret.kind = "search_answer"

\* send_email has returned after an SMTP step raised exc
SmtpFailed(exc) ==
    /\ Returned("send_email")
    /\ resp = ExcResp(exc)
    /\ smtp # <<>>
    /\ smtp[Len(smtp)].outcome = exc

\* C8: send_email sorts SMTP failures into three different replies: an
\* authentication error at login gives the authentication message, refused
\* recipients give the refused-address message naming to_email, any other
\* SMTP error gives the generic SMTP-error message; a specific failure is
\* never reported with the generic or the "unexpected error" message.
C8_SmtpFailureReplies ==
    /\ SmtpFailed("SMTPAuthenticationError") =>
          /\ smtp[Len(smtp)].step = "login"
          /\ ret.type = "str"
          /\ ret.kind = "email_auth_trouble"
    /\ SmtpFailed("SMTPRecipientsRefused") =>
          ret = Str("email_refused", <<args.to_email>>, <<>>)
    /\ \A exc \in {"SMTPConnectError", "SMTPNotSupportedError", "SMTPServerDisconnected",
                   "SMTPSenderRefused"} :
          SmtpFailed(exc) => ret = Str("email_smtp_error", <<>>, <<>>)

C8_Witness ==
    /\ SmtpFailed("SMTPAuthenticationError")
    /\ ret.kind = "email_auth_trouble"

\* C9: outside demo mode send_email performs connect (port 587), STARTTLS,
\* login, sendmail, quit in this order: a step is attempted only when every
\* step before it has succeeded, so login never precedes a completed
\* STARTTLS and sendmail never precedes a successful login.
C9_SmtpOrder ==
    /\ Len(smtp) <= 5
    /\ \A i \in DOMAIN smtp :
          /\ smtp[i].step = <<"connect", "starttls", "login", "sendmail", "quit">>[i]
          /\ smtp[i].port = 587
          /\ i < Len(smtp) => smtp[i].outcome = "ok"

C9_Witness ==
    /\ Len(smtp) = 5
    /\ smtp[4].step = "sendmail"
    /\ smtp[5].outcome = "ok"
    /\ ret.kind = "email_sent"

\* The provider EMAIL_PROVIDER stands for, case-insensitively
ProviderMeant(v) ==
    IF v \in {Val(S_outlook), Val(S_OUTLOOK)} THEN "outlook"
    ELSE IF v \in {Val(S_yandex), Val(S_Yandex)} THEN "yandex"
    ELSE IF v \in {Val(S_mail), Val(S_Mail)} THEN "mail"
    ELSE "gmail"

WebhookAnswered ==
    /\ Returned("get_weather_n8n")
    /\ resp.kind = "http"

\* The webhook's 200 body is a JSON object
WebhookObject == resp.status = 200 /\ resp.body.parsed = "yes"

\* The value get_weather_n8n hands back on success: the message as it came,
\* or the default success sentence
IsSuccessReply(v) == v.kind \in {"n8n_message", "n8n_default_success"}

\* C11: get_weather_n8n maps the webhook's response: 200 with success true
\* returns the message field; 200 with success false or missing returns an
\* error text built from the message; every non-200 status returns the fixed
\* "Weather service returned status N" text; the value returned on success
\* is never returned for a non-200 status or for success false.
C11_WebhookMapping ==
    WebhookAnswered =>
        /\ (WebhookObject /\ resp.body.success = "true" /\ resp.body.message = "str")
              => ret = Str("n8n_message", <<>>, <<Tok("message", 0, "")>>)
        /\ (WebhookObject /\ resp.body.success # "true" /\ resp.body.message = "str")
              => /\ ret.type = "str"
                 /\ HasTok(ret.parts, "message")
                 /\ ~IsSuccessReply(ret)
        /\ resp.status # 200
              => ret = Str("n8n_status", <<>>, <<Tok("status", resp.status, "")>>)
        /\ IsSuccessReply(ret)
              => (WebhookObject /\ resp.body.success = "true")

\* get_weather_n8n has sent its POST
WebhookPosted == tool = "get_weather_n8n" /\ request # NoRequest

FiveFields == {"action", "city", "units", "date", "user_id"}

Blank(c) == c \in {9, 10, 13, 32}

\* t is s without its leading and trailing blanks
IsTrimOf(t, s) ==
    \E i \in 1..(Len(s) + 1), j \in 0..Len(s) :
        /\ t = SubSeq(s, i, j)
        /\ \A k \in 1..Len(s) : (k < i \/ k > j) => Blank(s[k])
        /\ t # <<>> => ~Blank(t[1]) /\ ~Blank(t[Len(t)])

\* t is s with its capital letters made small
IsLowerOf(t, s) ==
    /\ Len(t) = Len(s)
    /\ \A k \in 1..Len(s) :
          IF s[k] \in 65..90 THEN t[k] = s[k] + 32 ELSE t[k] = s[k]

\* C12 as stated: get_weather_n8n POSTs to the one fixed webhook URL a JSON
\* object with exactly the fields action, city, units, date and user_id,
\* action "weather", date "today", city and units those of the call.
C12_PayloadAsStated ==
    WebhookPosted =>
        /\ request.url = N8N_WEATHER_URL
        /\ DOMAIN request.payload = FiveFields
        /\ request.payload.action = "weather"
        /\ request.payload.date = "today"
        /\ request.payload.city = args.city
        /\ request.payload.units = args.units

\* C12 amended: the URL, action "weather", date "today" and user_id are as
\* stated; agentn8n.py sends exactly the five fields with city and units as
\* they came; toolsn8n.py sends a sixth field, timestamp, the city without
\* its surrounding blanks and the units in lower case.
C12_Payload ==
    WebhookPosted =>
        /\ request.url = N8N_WEATHER_URL
        /\ request.payload.action = "weather"
        /\ request.payload.date = "today"
        /\ request.payload.user_id = "livekit_user"
        /\ mod = "agentn8n" =>
              /\ DOMAIN request.payload = FiveFields
              /\ request.payload.city = args.city
              /\ request.payload.units = args.units
        /\ mod = "toolsn8n" =>
              /\ DOMAIN request.payload = FiveFields \cup {"timestamp"}
              /\ IsTrimOf(request.payload.city, args.city)
              /\ IsLowerOf(request.payload.units, args.units)

C12_Witness ==
    /\ WebhookPosted
    /\ mod = "toolsn8n"
    /\ args.city = S_RomeSp
    /\ request.payload.city = S_Rome
    /\ args.units = <<67>>
    /\ request.payload.units = <<99>>

\* The names of the steps performed so far
StepNames == [i \in DOMAIN steps |-> steps[i].step]

IsPrefix(s, t) == Len(s) <= Len(t) /\ s = SubSeq(t, 1, Len(s))

RECURSIVE Without(_, _)
Without(s, x) ==
    IF s = <<>> THEN <<>>
    ELSE (IF Head(s) = x THEN <<>> ELSE <<Head(s)>>) \o Without(Tail(s), x)

\* Step a was performed, successfully, before the i-th step
DoneBefore(a, i) == \E j \in 1..(i - 1) : steps[j].step = a /\ steps[j].outcome = "ok"

SevenSteps == <<"connect", "agent", "session", "callbacks", "start", "greeting", "idle">>

\* C13 as stated: every entrypoint performs connect, construct agent,
\* construct session, attach callbacks, start session, greeting, idle loop,
\* these and in this order; the session is never started before the room is
\* connected and the callbacks are attached, the greeting never before the
\* session has started.
C13_EntrypointOrderAsStated ==
    /\ IsPrefix(StepNames, SevenSteps)
    /\ estatus # "returned"
    /\ \A i \in DOMAIN steps :
          /\ steps[i].step = "start" => DoneBefore("connect", i) /\ DoneBefore("callbacks", i)
          /\ steps[i].step = "greeting" => DoneBefore("start", i)

\* C13 amended: every entrypoint performs connect, construct agent,
\* construct session, start session, greeting in this order; all but
\* agent_groq.py attach their callbacks between constructing the session and
\* starting it; all but agent.py and agent_groq.py then idle, those two
\* return after the greeting; agentn8n.py, agentn8n_cerebras.py and
\* agentn8n_openai.py probe their tools before they connect.  The session is
\* never started before the room is connected and, where callbacks are
\* attached at all, before they are attached; the greeting is never
\* generated before the session has started.
C13_EntrypointOrder ==
    estatus # "none" =>
        /\ IsPrefix(Without(StepNames, "probe"),
                    IF entry = "agent_groq" THEN Without(SevenSteps, "callbacks") ELSE SevenSteps)
        /\ \A i \in DOMAIN steps :
              /\ steps[i].step = "probe" =>
                    i = 1 /\ entry \in {"agentn8n", "agentn8n_cerebras", "agentn8n_openai"}
              /\ steps[i].step = "start" =>
                    /\ DoneBefore("connect", i)
                    /\ entry # "agent_groq" => DoneBefore("callbacks", i)
              /\ steps[i].step = "greeting" => DoneBefore("start", i)
              /\ steps[i].step = "idle" => entry \notin {"agent", "agent_groq"}
        /\ estatus = "returned" =>
              /\ entry \in {"agent", "agent_groq"}
              /\ steps[Len(steps)].step = "greeting"

C13_Witness ==
    /\ entry = "agentn8n"
    /\ Len(steps) = 8
    /\ steps[1].step = "probe"
    /\ steps[6] = [step |-> "start", outcome |-> "ok"]
    /\ steps[8].step = "idle"

\* Two different tasks created by the agent's code touch the same field of
\* the Agent object, and one of them writes it
SharedField(field) ==
    \E a, b \in access :
        /\ a.field = field /\ b.field = field
        /\ a.task # FrameworkTask /\ b.task # FrameworkTask
        /\ a.task # b.task
        /\ a.mode = "w"

\* C14: the repository's code never fans out: at most one task that it
\* created is in flight at any time, and no field written by one such task
\* is read or written by another.
C14_NoFanOut ==
    /\ Cardinality(tasks) <= 1
    /\ \A field \in {"_video_stream", "_video_tasks", "_frame_count", "_latest_frame",
                     "_latest_video_description", "_gemini_llm"} : ~SharedField(field)

\* EMAIL_DEMO_MODE holds "true" in some spelling
DemoModeOn == env.EMAIL_DEMO_MODE \in {Val(S_true), Val(S_TRUE)}

DemoFiles == Len(SelectSeq(files, LAMBDA f : f = "demo_email"))

\* C15: with EMAIL_DEMO_MODE "true" (in any case) send_email opens no SMTP
\* connection and sends nothing: it writes exactly one demo text file and
\* returns the "simulated" reply; with demo mode off it writes no demo file.
C15_DemoMode ==
    tool = "send_email" =>
        /\ DemoModeOn =>
              /\ smtp = <<>>
              /\ conn = "none"
              /\ pc = "returned" => (DemoFiles = 1 /\ ret.kind = "email_simulated")
        /\ ~DemoModeOn => DemoFiles = 0

\* get_weather of aitools.py has sent its GET
ForecastRequested ==
    /\ tool = "get_weather"
    /\ mod = "aitools"
    /\ request # NoRequest

\* C16: whatever integer get_weather is given as days (zero, negative and
\* above 3 included), the days parameter it sends to the weather provider
\* lies in 1..3: below 1 it sends 1, above 3 it sends 3, otherwise the
\* argument itself.
C16_DaysClamped ==
    ForecastRequested =>
        /\ request.payload.days \in 1..3
        /\ args.days < 1 => request.payload.days = 1
        /\ args.days > 3 => request.payload.days = 3
        /\ args.days \in 1..3 => request.payload.days = args.days

C16_Witness ==
    /\ ForecastRequested
    /\ args.days = 0
    /\ request.payload.days = 1

\* The API key the running tool needs is unset or empty
ApiKeyMissing ==
    \/ tool = "get_weather" /\ mod \in {"aitools", "toolscerebras"}
          /\ env.WEATHER_API_KEY \in {Unset, Val(S_empty)}
    \/ tool = "search_web" /\ mod \in {"aitools", "toolscerebras", "toolsn8n"}
          /\ env.TAVILY_API_KEY \in {Unset, Val(S_empty)}

\* C17: with its API key missing or empty (WEATHER_API_KEY for get_weather,
\* TAVILY_API_KEY for search_web) the tool returns its fixed "not
\* configured" message and issues no outbound HTTP request.
C17_NoKeyNoRequest ==
    ApiKeyMissing =>
        /\ requests = 0
        /\ request = NoRequest
        /\ pc = "returned"
        /\ ret = Str(IF tool = "get_weather" THEN "weather_not_configured"
                     ELSE "search_not_configured", <<>>, <<>>)

C17_Witness ==
    /\ ApiKeyMissing
    /\ tool = "search_web"
    /\ env.TAVILY_API_KEY = Val(S_empty)
    /\ pc = "returned"
    /\ ret.kind = "search_not_configured"

\* send_email runs outside demo mode (tools.py has no demo mode)
SendingForReal == tool = "send_email" /\ (mod = "tools" \/ ~DemoModeOn)

\* User and password of the provider the invocation selects are non-empty
CredentialsSet ==
    LET p == IF mod = "toolscerebras" THEN "gmail" ELSE ProviderMeant(env.EMAIL_PROVIDER)
    IN  /\ env.creds[p].user.set /\ env.creds[p].user.val # <<>>
        /\ env.creds[p].password.set /\ env.creds[p].password.val # <<>>

\* C18: outside demo mode send_email opens an SMTP connection only after two
\* checks have passed, made in this order: user and password of the selected
\* provider are both non-empty, then to_email contains "@"; when a check
\* fails its error message is returned and no SMTP connection is opened.
C18_ChecksBeforeConnect ==
    SendingForReal =>
        /\ smtp # <<>> => (CredentialsSet /\ HasAt(args.to_email))
        /\ ~CredentialsSet =>
              /\ pc = "returned"
              /\ ret.kind = "email_not_configured"
              /\ smtp = <<>> /\ conn = "none" /\ requests = 0
        /\ (CredentialsSet /\ ~HasAt(args.to_email)) =>
              /\ pc = "returned"
              /\ ret = Str("email_bad_address", <<args.to_email>>, <<>>)
              /\ smtp = <<>> /\ conn = "none" /\ requests = 0

C18_Witness ==
    /\ SendingForReal
    /\ ~CredentialsSet
    /\ ~HasAt(args.to_email)
    /\ pc = "returned"
    /\ ret.kind = "email_not_configured"
    /\ smtp = <<>>

\* send_email has returned its success reply after a sendmail call
EmailDelivered ==
    /\ Returned("send_email")
    /\ ret.kind = "email_sent"
    /\ \E i \in DOMAIN smtp : smtp[i].step = "sendmail"

\* The recipient list that was passed to sendmail
SendmailRecipients ==
    LET i == CHOOSE j \in DOMAIN smtp : smtp[j].step = "sendmail"
    IN  smtp[i].rcpt

\* C19: the success reply of send_email mentions a copy to cc_email if and
\* only if cc_email was in the recipient list passed to sendmail, that is
\* only when cc_email is non-empty and contains "@".
C19_CopyMentionedIffSent ==
    EmailDelivered =>
        LET mentioned == Len(ret.names) = 2 /\ ret.names[2] = args.cc_email.val
            included  == \E i \in DOMAIN SendmailRecipients :
                            i > 1 /\ SendmailRecipients[i] = args.cc_email.val
        IN  /\ mentioned <=> included
            /\ included <=> (/\ args.cc_email.set
                             /\ args.cc_email.val # <<>>
                             /\ HasAt(args.cc_email.val))

\* C20: every SMTP connection send_email opens is closed (quit) before
\* send_email returns, on the success path and on every failure path
\* (STARTTLS failure, authentication failure, recipients refused, other SMTP
\* error).
C20_ConnectionClosed ==
    (Returned("send_email") /\ conn # "none") => conn = "closed"

\* sendmail has succeeded: the message was handed to the SMTP server
SendmailSucceeded ==
    \E i \in DOMAIN smtp : smtp[i].step = "sendmail" /\ smtp[i].outcome = "ok"

\* C21: send_email of tools.py returns a failure reply only if the e-mail
\* was not handed to the SMTP server: whenever sendmail has succeeded the
\* reply is the "Email sent successfully" one, whatever happens in the steps
\* after sendmail (quit, writing the local debug copy).
C21_SentMeansSuccessReply ==
    (mod = "tools" /\ Returned("send_email") /\ SendmailSucceeded)
        => ret.kind = "email_sent"

\* search_web has returned its fallback reply for a list of one to three
\* results
FallbackReturned ==
    /\ Returned("search_web")
    /\ ret.kind = "search_results"
    /\ Len(resp.body.results.items) \in 1..ResultLimit

\* How many parts of kind t a reply is made of
CountTok(parts, t) == Cardinality({i \in DOMAIN parts : parts[i].t = t})

\* C22: in the fallback reply of search_web (no answer, non-empty results)
\* the separator " ... " stands only between two consecutive snippets: for
\* every result list of length 1, 2 or 3 the reply never ends with a
\* separator and holds exactly (number of included snippets - 1) separators.
C22_SeparatorsBetween ==
    FallbackReturned =>
        /\ ret.parts # <<>> => ret.parts[Len(ret.parts)].t # "sep"
        /\ CountTok(ret.parts, "content") > 0 =>
              CountTok(ret.parts, "sep") = CountTok(ret.parts, "content") - 1
        /\ \A i \in DOMAIN ret.parts :
              ret.parts[i].t = "sep" =>
                  /\ i > 1 /\ ret.parts[i - 1].t = "content"
                  /\ i < Len(ret.parts) /\ ret.parts[i + 1].t = "title"

\* get_weather of aitools.py has returned its weather report
WeatherReported ==
    /\ mod = "aitools"
    /\ Returned("get_weather")
    /\ ret.kind = "weather_report"

\* The parts of the report that follow the location and the current weather
ForecastPart == SubSeq(ret.parts, 3, Len(ret.parts))

\* C23: when the clamped days value is greater than 1 the reply of
\* get_weather holds one forecast entry for every returned forecast day but
\* the first (today), labelled "Tomorrow" for the second day and "Day N" for
\* the N-th; an entry mentions snow when the snow chance is above 30, rain
\* only when the snow chance is not above 30 and the rain chance is above
\* 30, and no precipitation otherwise; when days is 1 there is no forecast
\* part.
C23_ForecastEntries ==
    WeatherReported =>
        LET fd == resp.body.forecast.days
        IN  IF days > 1
            THEN /\ Len(ForecastPart) = 1 + (IF Len(fd) > 0 THEN Len(fd) - 1 ELSE 0)
                 /\ ForecastPart[1].t = "Forecast"
                 /\ \A n \in 2..Len(fd) :
                       LET item == ForecastPart[n]
                       IN  /\ item.t = (IF n = 2 THEN "Tomorrow" ELSE "Day")
                           /\ item.i = n
                           /\ item.v = "snow" <=> fd[n].snow > 30
                           /\ item.v = "rain" <=> (fd[n].snow <= 30 /\ fd[n].rain > 30)
                           /\ item.v = "none" <=> (fd[n].snow <= 30 /\ fd[n].rain <= 30)
            ELSE ForecastPart = <<>>

C23_Witness ==
    /\ WeatherReported
    /\ days = 3
    /\ Len(resp.body.forecast.days) = 3
    /\ resp.body.forecast.days[2] = [rain |-> 80, snow |-> 40]
    /\ resp.body.forecast.days[3] = [rain |-> 30, snow |-> 30]
    /\ ForecastPart = <<Tok("Forecast", 0, ""), Tok("Tomorrow", 2, "snow"), Tok("Day", 3, "none")>>

\* The session of an agentopenai.py job runs before and after the step
OpenAIJobStep ==
    /\ entry = "agentopenai" /\ entry' = entry
    /\ SessionRunning /\ SessionRunning'

\* C24: in the frame loop of OpenAIAssistant the frame counter goes up by
\* exactly one for every received frame and is never reset, also not when
\* the video stream is replaced; _latest_frame and _last_frame_time change
\* only on a frame whose counter value is a multiple of 10 and whose
\* encoding succeeded, and are left unchanged on every other frame.
C24_FrameCounter ==
    [][OpenAIJobStep =>
        /\ ProcessVideoFrame => assistant'.frame_count = assistant.frame_count + 1
        /\ ~ProcessVideoFrame => assistant'.frame_count = assistant.frame_count
        /\ assistant'.video_stream # assistant.video_stream
              => assistant'.frame_count = assistant.frame_count
        /\ (\/ assistant'.latest_frame # assistant.latest_frame
            \/ assistant'.last_frame_time # assistant.last_frame_time)
              => /\ ProcessVideoFrame
                 /\ assistant'.frame_count % 10 = 0
                 /\ assistant'.latest_frame = assistant'.frame_count
                 /\ assistant'.last_frame_time = clock']_vars

\* Twenty frames were received over two streams; the tenth was stored, the
\* twentieth could not be encoded
C24_Witness ==
    /\ entry = "agentopenai"
    /\ SessionRunning
    /\ assistant.streams = 2
    /\ assistant.frame_count = 21
    /\ assistant.latest_frame = 10
    /\ assistant.last_frame_time = 1
    /\ clock = 2

Consumers(k) == {t \in tasks : t.kind = "frames" /\ t.stream = k}

\* Each stream is read by at most one _process_video_frames task
OneConsumerPerStream ==
    \A k \in 1..assistant.streams : Cardinality(Consumers(k)) <= 1

\* Every stream but the most recently created one has been closed
OlderStreamsClosed ==
    \A k \in 1..assistant.streams : k # assistant.streams => k \in closed

\* C26: for every interleaving of track_subscribed events and task
\* scheduling, each video stream created by _setup_video_stream is consumed
\* by at most one _process_video_frames task, and every stream other than
\* the most recently created one has been closed.
C26_OneLoopPerStream ==
    entry \in VideoAgents => (OneConsumerPerStream /\ OlderStreamsClosed)

\* The initial greeting was attempted and generate_reply raised
GreetingFailed ==
    \E i \in DOMAIN steps : steps[i] = [step |-> "greeting", outcome |-> "raised"]

\* C27: in every agent entrypoint a failure of the initial greeting
\* (session.generate_reply raising) is not fatal: the exception is logged and
\* not propagated, and the entrypoint goes on to its ready state, the idle
\* loop, with the session still started.
C27_GreetingFailureNotFatal ==
    GreetingFailed =>
        /\ estatus = "running"
        /\ AtStep("idle")
        /\ \E i \in DOMAIN steps : steps[i] = [step |-> "start", outcome |-> "ok"]

====
